---- MODULE Spec2Model ----
(***************************************************************************)
(* State-machine model of the MiningDashboard component                    *)
(* (src/src/app/mining/page.tsx): its React state, the polling effect and  *)
(* its interval timer, the three click handlers and the requests they and  *)
(* the timer have in flight against /api/mining.                           *)
(*                                                                         *)
(* Granularity.  JavaScript runs each handler to its next await without    *)
(* interleaving, so a click handler up to its fetch is one action and the  *)
(* continuation that runs when the response has arrived is one action.     *)
(* State updates made in one continuation are committed together, and the  *)
(* commit of a changed isMining runs the polling effect (cleanup of the    *)
(* previous effect, then the effect body) as part of the same step.        *)
(* Characters are their ASCII codes; a string is a sequence of codes.      *)
(* Numbers shown by the dashboard are integers.                            *)
(***************************************************************************)
EXTENDS Integers, Sequences, FiniteSets, TLC

VARIABLES
    mounted,       \* the component is mounted (not torn down)
    isMining,      \* useState, line 18
    progress,      \* useState, line 19
    hashRate,      \* useState, line 20
    totalMined,    \* useState, line 21
    customWallet,  \* useState, line 22
    message,       \* useState, line 23
    isLoading,     \* useState, line 24
    timers,        \* the live interval timers: timer id -> time left to the next tick
    interval,      \* the `interval` variable of the current effect closure (0: undefined)
    inflight,      \* the requests sent to /api/mining and not yet completed, in sending order
    clock,         \* time elapsed since the current effect created its timer
    ticks          \* status requests issued by timer callbacks since then

vars == <<mounted, isMining, progress, hashRate, totalMined, customWallet,
          message, isLoading, timers, interval, inflight, clock, ticks>>

stateVars == <<isMining, progress, hashRate, totalMined, customWallet, message, isLoading>>

-----------------------------------------------------------------------------
(* Bounds of the exploration *)

MaxInFlight == 3
MaxClock == 5

-----------------------------------------------------------------------------
(* Strings as sequences of ASCII codes *)

Fill(n, c) == [i \in 1..n |-> c]

Put(w, i, c) == [w EXCEPT ![i] = c]

EmptyString == <<>>

\* '1' followed by n-1 times 'a', and '3' followed by n-1 times 'z'
OneA(n) == <<49>> \o Fill(n - 1, 97)
ThreeZ(n) == <<51>> \o Fill(n - 1, 122)

\* "1BoatSLRHtKNngkdXEeobR76b53LETtpyT"
Boat == <<49, 66, 111, 97, 116, 83, 76, 82, 72, 116, 75, 78, 110, 103, 107, 100, 88,
          69, 101, 111, 98, 82, 55, 54, 98, 53, 51, 76, 69, 84, 116, 112, 121, 84>>

\* "3J98t1WpEZ73CNmQviecrnyiWrnqRhWNLy"
ThreeJ == <<51, 74, 57, 56, 116, 49, 87, 112, 69, 90, 55, 51, 67, 78, 109, 81, 118,
            105, 101, 99, 114, 110, 121, 105, 87, 114, 110, 113, 82, 104, 87, 78, 76, 121>>

\* The texts the user types into the address input
Wallets ==
    { EmptyString, Boat, ThreeJ,
      OneA(26), ThreeZ(35),                  \* shortest and longest accepted length
      OneA(25), ThreeZ(36),                  \* one too short, one too long
      Put(Boat, 1, 50),                      \* first character '2'
      Put(Boat, 1, 98),                      \* first character 'b'
      Put(Boat, 34, 48),                     \* '0' as last character
      Put(ThreeJ, 2, 79),                    \* 'O' as second character
      Put(Boat, 17, 73),                     \* 'I' in the middle
      Put(OneA(26), 26, 108),                \* 'l' as last character
      Put(ThreeJ, 5, 45),                    \* '-'
      Put(Boat, 9, 32) }                     \* ' '

-----------------------------------------------------------------------------
(* walletAddressRegex, line 15: /^[13][a-km-zA-HJ-NP-Z1-9]{25,34}$/ *)

\* [13]
FirstClass == {49, 51}

\* [a-km-zA-HJ-NP-Z1-9]
BodyClass == (97..107) \cup (109..122) \cup (65..72) \cup (74..78) \cup (80..90) \cup (49..57)

\* {25,34}
RepeatMin == 25
RepeatMax == 34

\* The pattern without its end anchor: /^[13][a-km-zA-HJ-NP-Z1-9]{25,34}/
walletAddressRegexTestNoEnd(w) ==
    /\ Len(w) >= 1
    /\ w[1] \in FirstClass
    /\ Len(w) - 1 >= RepeatMin
    /\ \A i \in 2..(IF Len(w) <= RepeatMax + 1 THEN Len(w) ELSE RepeatMax + 1) :
           w[i] \in BodyClass

\* The pattern with the repetition {26,34}
walletAddressRegexTestOneMore(w) ==
    /\ Len(w) >= 1
    /\ w[1] \in FirstClass
    /\ Len(w) - 1 >= RepeatMin + 1
    /\ Len(w) - 1 <= RepeatMax
    /\ \A i \in 2..Len(w) : w[i] \in BodyClass

walletAddressRegexTest(w) ==
    /\ Len(w) >= 1
    /\ w[1] \in FirstClass
    /\ Len(w) - 1 >= RepeatMin
    /\ Len(w) - 1 <= RepeatMax
    /\ \A i \in 2..Len(w) : w[i] \in BodyClass

-----------------------------------------------------------------------------
(* Messages, requests and responses *)

NoMessage == [type |-> "none", text |-> ""]

Msg(t, x) == [type |-> t, text |-> x]

Request(a, w) == [action |-> a, wallet |-> w]

StatusRequest == Request("status", EmptyString)
StartRequest == Request("start", EmptyString)
StopRequest == Request("stop", EmptyString)
DepositRequest(w) == Request("deposit", w)

IsUserRequest(r) == r.action \in {"start", "stop", "deposit"}

\* The JSON bodies the endpoint answers a status request with
StatusBodies ==
    { [progress |-> 0, hashRate |-> 0, totalMined |-> 0],
      [progress |-> 25, hashRate |-> 10, totalMined |-> 1],
      [progress |-> 50, hashRate |-> 20, totalMined |-> 2] }

\* The JSON bodies the endpoint answers a deposit request with ("": no message field)
DepositBodies == { [message |-> ""], [message |-> "Server text."] }

NoBody == [message |-> ""]

\* How a request completes: fetch rejects ("error"), or resolves with res.ok
\* true ("ok") or false ("notok"); json tells whether res.json() resolves, and
\* data is what it resolves to.
Outcome(s, j, d) == [status |-> s, json |-> j, data |-> d]

\* start and stop never read the body
PlainOutcomes == { Outcome(s, FALSE, NoBody) : s \in {"ok", "notok", "error"} }

StatusOutcomes ==
    { Outcome("ok", TRUE, b) : b \in StatusBodies }
      \cup { Outcome("ok", FALSE, NoBody), Outcome("notok", FALSE, NoBody),
             Outcome("error", FALSE, NoBody) }

DepositOutcomes ==
    { Outcome(s, TRUE, b) : s \in {"ok", "notok"}, b \in DepositBodies }
      \cup { Outcome(s, FALSE, NoBody) : s \in {"ok", "notok", "error"} }

Outcomes(a) ==
    CASE a = "status" -> StatusOutcomes
      [] a = "deposit" -> DepositOutcomes
      [] OTHER -> PlainOutcomes

Remove(s, i) == [k \in 1..(Len(s) - 1) |-> IF k < i THEN s[k] ELSE s[k + 1]]

-----------------------------------------------------------------------------
(* Timers *)

\* setInterval(..., 2000), line 48, in time units of one second
PollInterval == 2

NoTimers == [id \in {} |-> 0]

\* setInterval: a new timer with an id not in use
NewTimerId(ts) == CHOOSE id \in 1..(Cardinality(DOMAIN ts) + 1) : id \notin DOMAIN ts

\* A timer whose first tick comes one time unit late
setIntervalLate(ts, id) ==
    [t \in DOMAIN ts \cup {id} |-> IF t = id THEN PollInterval + 1 ELSE ts[t]]

setInterval(ts, id) == [t \in DOMAIN ts \cup {id} |-> IF t = id THEN PollInterval ELSE ts[t]]

\* A clearInterval that clears nothing
clearIntervalNothing(ts, id) == ts

clearInterval(ts, id) == [t \in DOMAIN ts \ {id} |-> ts[t]]

\* A cleanup that leaves the interval running
EffectCleanupKeepsTimer(ts, iv) == ts

\* The cleanup function of the effect, lines 50-52
EffectCleanup(ts, iv) == IF iv # 0 THEN clearInterval(ts, iv) ELSE ts

\* A commit in which isMining becomes m: when the dependency [isMining] changed,
\* the cleanup of the previous effect runs and then the effect body, lines 27-53
CommitIsMining(m) ==
    /\ isMining' = m
    /\ IF m # isMining
         THEN LET ts == EffectCleanup(timers, interval)
                  id == NewTimerId(ts)
              IN IF m
                   THEN /\ timers' = setInterval(ts, id)
                        /\ interval' = id
                        /\ clock' = 0
                        /\ ticks' = 0
                   ELSE /\ timers' = ts
                        /\ interval' = 0
                        /\ UNCHANGED <<clock, ticks>>
         ELSE UNCHANGED <<timers, interval, clock, ticks>>

-----------------------------------------------------------------------------
(* Initial state: the component is mounted, the effect has run with isMining
   false and created no timer *)

Init ==
    /\ mounted = TRUE
    /\ isMining = FALSE
    /\ progress = 0
    /\ hashRate = 0
    /\ totalMined = 0
    /\ customWallet = EmptyString
    /\ message = NoMessage
    /\ isLoading = FALSE
    /\ timers = NoTimers
    /\ interval = 0
    /\ inflight = <<>>
    /\ clock = 0
    /\ ticks = 0

-----------------------------------------------------------------------------
(* The buttons and the input, lines 134-149: a disabled control takes no event *)

\* A Start button that is disabled only while loading
StartDisabledLoadingOnly == isLoading

StartDisabled == isMining \/ isLoading

StopDisabled == ~isMining \/ isLoading

InputDisabled == isLoading

\* A Deposit button that is disabled only while nothing is accrued
DepositDisabledNoLoading == totalMined <= 0

DepositDisabled == isLoading \/ totalMined <= 0

\* fetch('/api/mining', ...): the request is on its way
Fetch(r) ==
    /\ Len(inflight) < MaxInFlight
    /\ inflight' = Append(inflight, r)

-----------------------------------------------------------------------------
(* startMining, lines 55-74 *)

\* A handler that does not clear the message when it starts
startMiningKeepsMessage ==
    /\ isLoading' = TRUE
    /\ Fetch(StartRequest)
    /\ UNCHANGED <<mounted, isMining, progress, hashRate, totalMined, customWallet,
                   message, timers, interval, clock, ticks>>

\* lines 55-63: up to the await of fetch
startMining ==
    /\ isLoading' = TRUE
    /\ message' = NoMessage
    /\ Fetch(StartRequest)
    /\ UNCHANGED <<mounted, isMining, progress, hashRate, totalMined, customWallet,
                   timers, interval, clock, ticks>>

\* lines 64-72: the value of isMining and the message after the response
\* setIsMining(true) outside the test of res.ok
startMiningIsMiningAlways(o) == TRUE

startMiningIsMining(o) == IF o.status = "ok" THEN TRUE ELSE isMining

startMiningMessage(o) ==
    CASE o.status = "ok" -> Msg("success", "Mining started.")
      [] o.status = "notok" -> Msg("error", "Failed to start mining.")
      [] OTHER -> Msg("error", "Error starting mining.")

\* lines 64-73: the continuation after the await
startMiningResume(o) ==
    /\ CommitIsMining(startMiningIsMining(o))
    /\ message' = startMiningMessage(o)
    /\ isLoading' = FALSE
    /\ UNCHANGED <<progress, hashRate, totalMined, customWallet>>

-----------------------------------------------------------------------------
(* stopMining, lines 76-95 *)

\* lines 76-84
stopMining ==
    /\ isLoading' = TRUE
    /\ message' = NoMessage
    /\ Fetch(StopRequest)
    /\ UNCHANGED <<mounted, isMining, progress, hashRate, totalMined, customWallet,
                   timers, interval, clock, ticks>>

\* lines 85-93
\* setIsMining(false) outside the test of res.ok
stopMiningIsMiningAlways(o) == FALSE

stopMiningIsMining(o) == IF o.status = "ok" THEN FALSE ELSE isMining

stopMiningMessage(o) ==
    CASE o.status = "ok" -> Msg("success", "Mining stopped.")
      [] o.status = "notok" -> Msg("error", "Failed to stop mining.")
      [] OTHER -> Msg("error", "Error stopping mining.")

\* A continuation that zeroes the progress when the session has stopped
stopMiningResumeResetsProgress(o) ==
    /\ CommitIsMining(stopMiningIsMining(o))
    /\ message' = stopMiningMessage(o)
    /\ isLoading' = FALSE
    /\ progress' = IF o.status = "ok" THEN 0 ELSE progress
    /\ UNCHANGED <<hashRate, totalMined, customWallet>>

\* A continuation that clears the loading flag on the ok branch only
stopMiningResumeKeepsLoading(o) ==
    /\ CommitIsMining(stopMiningIsMining(o))
    /\ message' = stopMiningMessage(o)
    /\ isLoading' = (o.status # "ok")
    /\ UNCHANGED <<progress, hashRate, totalMined, customWallet>>

\* lines 85-94
stopMiningResume(o) ==
    /\ CommitIsMining(stopMiningIsMining(o))
    /\ message' = stopMiningMessage(o)
    /\ isLoading' = FALSE
    /\ UNCHANGED <<progress, hashRate, totalMined, customWallet>>

-----------------------------------------------------------------------------
(* deposit, lines 97-122 *)

InvalidWalletMessage == Msg("error", "Invalid Bitcoin wallet address.")

\* lines 97-109: validation, then up to the await of fetch
deposit ==
    IF ~walletAddressRegexTest(customWallet)
      THEN /\ message' = InvalidWalletMessage
           /\ UNCHANGED <<mounted, isMining, progress, hashRate, totalMined, customWallet,
                          isLoading, timers, interval, inflight, clock, ticks>>
      ELSE /\ message' = NoMessage
           /\ isLoading' = TRUE
           /\ Fetch(DepositRequest(customWallet))
           /\ UNCHANGED <<mounted, isMining, progress, hashRate, totalMined, customWallet,
                          timers, interval, clock, ticks>>

\* data.message || fallback
OrDefault(text, fallback) == IF text = "" THEN fallback ELSE text

\* The response was ok and its body was read: lines 110-113 run to their end
depositSucceeds(o) == o.status = "ok" /\ o.json

\* lines 110-120: a rejected fetch or a rejected res.json() lands in the catch
depositMessage(o) ==
    CASE o.status = "ok" /\ o.json ->
             Msg("success", OrDefault(o.data.message, "Deposit successful."))
      [] o.status = "notok" /\ o.json ->
             Msg("error", OrDefault(o.data.message, "Deposit failed."))
      [] OTHER -> Msg("error", "Error during deposit.")

\* setTotalMined(0) outside the test of res.ok
depositTotalMinedAlways(o) == 0

\* line 113
depositTotalMined(o) == IF depositSucceeds(o) THEN 0 ELSE totalMined

\* A continuation whose catch returns without clearing the loading flag
depositResumeCatchKeepsLoading(o) ==
    /\ message' = depositMessage(o)
    /\ totalMined' = depositTotalMined(o)
    /\ isLoading' = (o.status = "error" \/ ~o.json)
    /\ UNCHANGED <<isMining, progress, hashRate, customWallet,
                   timers, interval, clock, ticks>>

\* lines 110-121
depositResume(o) ==
    /\ message' = depositMessage(o)
    /\ totalMined' = depositTotalMined(o)
    /\ isLoading' = FALSE
    /\ UNCHANGED <<isMining, progress, hashRate, customWallet,
                   timers, interval, clock, ticks>>

-----------------------------------------------------------------------------
(* The timer callback, lines 30-48 *)

\* lines 30-36: a due timer runs its callback, which sends a status request;
\* the timer is due again one interval later
PollTick(id) ==
    /\ id \in DOMAIN timers
    /\ timers[id] = 0
    /\ Fetch(StatusRequest)
    /\ timers' = [timers EXCEPT ![id] = PollInterval]
    /\ ticks' = ticks + 1
    /\ UNCHANGED <<mounted, isMining, progress, hashRate, totalMined, customWallet,
                   message, isLoading, interval, clock>>

\* A callback that zeroes the numbers when the status request fails
pollResumeClearsOnError(o) ==
    /\ IF o.status = "ok" /\ o.json
         THEN /\ progress' = o.data.progress
              /\ hashRate' = o.data.hashRate
              /\ totalMined' = o.data.totalMined
              /\ UNCHANGED message
         ELSE /\ message' = IF o.status = "notok"
                              THEN Msg("error", "Failed to fetch mining status.")
                              ELSE Msg("error", "Error fetching mining status.")
              /\ progress' = 0
              /\ hashRate' = 0
              /\ totalMined' = 0
    /\ UNCHANGED <<isMining, customWallet, isLoading, timers, interval, clock, ticks>>

\* A callback that drops a response whose progress is behind the one shown
pollResumeKeepsNewest(o) ==
    /\ IF o.status = "ok" /\ o.json
         THEN IF o.data.progress >= progress
                THEN /\ progress' = o.data.progress
                     /\ hashRate' = o.data.hashRate
                     /\ totalMined' = o.data.totalMined
                     /\ UNCHANGED message
                ELSE UNCHANGED <<progress, hashRate, totalMined, message>>
         ELSE /\ message' = IF o.status = "notok"
                              THEN Msg("error", "Failed to fetch mining status.")
                              ELSE Msg("error", "Error fetching mining status.")
              /\ UNCHANGED <<progress, hashRate, totalMined>>
    /\ UNCHANGED <<isMining, customWallet, isLoading, timers, interval, clock, ticks>>

\* A callback that drops a response arriving when the session is not active
pollResumeOnlyWhileMining(o) ==
    /\ IF o.status = "ok" /\ o.json /\ isMining
         THEN /\ progress' = o.data.progress
              /\ hashRate' = o.data.hashRate
              /\ totalMined' = o.data.totalMined
              /\ UNCHANGED message
         ELSE IF o.status = "ok" /\ o.json
                THEN UNCHANGED <<progress, hashRate, totalMined, message>>
                ELSE /\ message' = IF o.status = "notok"
                                     THEN Msg("error", "Failed to fetch mining status.")
                                     ELSE Msg("error", "Error fetching mining status.")
                     /\ UNCHANGED <<progress, hashRate, totalMined>>
    /\ UNCHANGED <<isMining, customWallet, isLoading, timers, interval, clock, ticks>>

\* lines 37-47: the continuation after the await
pollResume(o) ==
    /\ IF o.status = "ok" /\ o.json
         THEN /\ progress' = o.data.progress
              /\ hashRate' = o.data.hashRate
              /\ totalMined' = o.data.totalMined
              /\ UNCHANGED message
         ELSE /\ message' = IF o.status = "notok"
                              THEN Msg("error", "Failed to fetch mining status.")
                              ELSE Msg("error", "Error fetching mining status.")
              /\ UNCHANGED <<progress, hashRate, totalMined>>
    /\ UNCHANGED <<isMining, customWallet, isLoading, timers, interval, clock, ticks>>

-----------------------------------------------------------------------------
(* The events *)

ClickStart == mounted /\ ~StartDisabled /\ startMining

ClickStop == mounted /\ ~StopDisabled /\ stopMining

ClickDeposit == mounted /\ ~DepositDisabled /\ deposit

\* onChange of the input, line 143
SetWallet(w) ==
    /\ mounted
    /\ ~InputDisabled
    /\ customWallet' = w
    /\ UNCHANGED <<mounted, isMining, progress, hashRate, totalMined, message, isLoading,
                   timers, interval, inflight, clock, ticks>>

\* The request at position i of inflight completes with outcome o and the
\* function awaiting it resumes; the state setters of a component that is no
\* longer mounted do nothing
Respond(i, o) ==
    /\ i \in 1..Len(inflight)
    /\ o \in Outcomes(inflight[i].action)
    /\ inflight' = Remove(inflight, i)
    /\ UNCHANGED mounted
    /\ IF ~mounted
         THEN UNCHANGED <<stateVars, timers, interval, clock, ticks>>
         ELSE CASE inflight[i].action = "start" -> startMiningResume(o)
                [] inflight[i].action = "stop" -> stopMiningResume(o)
                [] inflight[i].action = "deposit" -> depositResume(o)
                [] OTHER -> pollResume(o)

\* One time unit passes; a due timer runs its callback before more time passes
Advance ==
    /\ DOMAIN timers # {}
    /\ clock < MaxClock
    /\ \A id \in DOMAIN timers : timers[id] > 0
    /\ timers' = [id \in DOMAIN timers |-> timers[id] - 1]
    /\ clock' = clock + 1
    /\ UNCHANGED <<mounted, stateVars, interval, inflight, ticks>>

\* The component is torn down: the cleanup of the effect runs, lines 50-52
Unmount ==
    /\ mounted
    /\ mounted' = FALSE
    /\ timers' = EffectCleanup(timers, interval)
    /\ interval' = 0
    /\ UNCHANGED <<stateVars, inflight, clock, ticks>>

Next ==
    \/ ClickStart
    \/ ClickStop
    \/ ClickDeposit
    \/ \E w \in Wallets : SetWallet(w)
    \/ \E i \in 1..Len(inflight) : \E o \in Outcomes(inflight[i].action) : Respond(i, o)
    \/ \E id \in DOMAIN timers : PollTick(id)
    \/ Advance
    \/ Unmount

Spec == Init /\ [][Next]_vars

\* The deposit operation invoked on its own while no request is in flight,
\* without the Deposit button and its test of totalMined in front of it,
\* lines 97-109
InvokeDeposit == mounted /\ ~isLoading /\ deposit

NextDirect == Next \/ InvokeDeposit

\* The component with its deposit operation also callable directly
SpecDirect == Init /\ [][NextDirect]_vars

-----------------------------------------------------------------------------
(* Vocabulary of the properties *)

UserInFlight == SelectSeq(inflight, IsUserRequest)

StatusInFlight == SelectSeq(inflight, LAMBDA r : r.action = "status")

TimerLive == DOMAIN timers # {}

\* This step put request r on the wire
Sends(r) == inflight' = Append(inflight, r)

\* This step put no request on the wire
SendsNothing == inflight' = inflight \/ \E i \in 1..Len(inflight) : inflight' = Remove(inflight, i)

\* This step put a request of one of the kinds in the set as on the wire
SendsOneOf(as) ==
    /\ Len(inflight') = Len(inflight) + 1
    /\ inflight'[Len(inflight')].action \in as

\* The format rule for payout addresses, as the specification words it:
\* 26 to 35 characters, the first one '1' or '3', all of them letters or
\* digits other than '0', 'O', 'I' and 'l'
Base58Alphabet == ((48..57) \cup (65..90) \cup (97..122)) \ {48, 79, 73, 108}

FormatRule(w) ==
    /\ Len(w) >= 26
    /\ Len(w) <= 35
    /\ w[1] \in {49, 51}
    /\ \A i \in 1..Len(w) : w[i] \in Base58Alphabet

-----------------------------------------------------------------------------
\* C1: whenever isMining is false no poll timer is live, and every step that
\* turns isMining from true to false or tears the component down leaves no
\* timer live.
C1_InactiveHasNoTimer ==
    /\ [](~isMining => ~TimerLive)
    /\ [][((isMining /\ ~isMining') \/ (mounted /\ ~mounted')) => DOMAIN timers' = {}]_vars

\* A session that polled and was then stopped
C1_Witness ==
    /\ ~isMining
    /\ message = Msg("success", "Mining stopped.")
    /\ ticks > 0
    /\ ~TimerLive

\* C2: at most one start/stop/deposit request is in flight, and no step taken
\* while one is in flight puts another start/stop/deposit request on the wire
\* (neither at once nor when the pending one completes).
C2_UserActionsExclusive ==
    /\ [](Len(UserInFlight) <= 1)
    /\ [][Len(UserInFlight) >= 1 => ~SendsOneOf({"start", "stop", "deposit"})]_vars

\* A stop is pending in an active session with an accrued total and a valid
\* address typed in: Stop and Deposit would be available but for the pending request
C2_Witness ==
    /\ mounted
    /\ Len(UserInFlight) = 1
    /\ isMining
    /\ totalMined > 0
    /\ walletAddressRegexTest(customWallet)
    /\ StartDisabled /\ StopDisabled /\ DepositDisabled

\* C3: while the component is mounted, isLoading is true exactly when one
\* start/stop/deposit request is in flight (so it is set in the step that sends
\* the request and cleared in the step that completes it), and a step that sends
\* or completes a status request leaves isLoading as it is.
C3_LoadingIffUserRequest ==
    /\ [](mounted => (isLoading <=> Len(UserInFlight) = 1))
    /\ [][Len(StatusInFlight') # Len(StatusInFlight) => isLoading' = isLoading]_vars

\* No user request is pending while two status requests are
C3_Witness ==
    /\ mounted
    /\ ~isLoading
    /\ Len(StatusInFlight) = 2
    /\ message = Msg("error", "Failed to stop mining.")

\* C4: a click on Deposit with an address that violates the format rule sends
\* nothing, posts an error message and leaves isMining, progress, hashRate,
\* totalMined and isLoading unchanged.
C4_MalformedAddressRejected ==
    [][(ClickDeposit /\ ~FormatRule(customWallet)) =>
          /\ inflight' = inflight
          /\ message'.type = "error"
          /\ UNCHANGED <<isMining, progress, hashRate, totalMined, isLoading>>]_vars

\* An address one character too long has been rejected
C4_Witness ==
    /\ customWallet = ThreeZ(36)
    /\ message = InvalidWalletMessage
    /\ totalMined > 0
    /\ ~isLoading
    /\ Len(UserInFlight) = 0

\* C5: a click on Deposit with an address that satisfies the format rule and
\* with no start/stop/deposit request in flight sends exactly one request, the
\* deposit command carrying that address.
C5_ValidAddressSendsDeposit ==
    [][(ClickDeposit /\ FormatRule(customWallet) /\ Len(UserInFlight) = 0) =>
          Sends([action |-> "deposit", wallet |-> customWallet])]_vars

\* The deposit of the shortest accepted address is in flight
C5_Witness ==
    /\ customWallet = OneA(26)
    /\ Len(UserInFlight) = 1
    /\ UserInFlight[1] = [action |-> "deposit", wallet |-> OneA(26)]

\* C6: when the response to a start request sent with isMining false arrives
\* at the mounted component: if it is ok, isMining becomes true and a success
\* message is posted; if it is not ok or the transport failed, isMining stays
\* false and an error message is posted.
C6_StartOutcome ==
    [][\A i \in 1..Len(inflight) : \A o \in PlainOutcomes :
          (mounted /\ ~isMining /\ inflight[i].action = "start" /\ Respond(i, o)) =>
              IF o.status = "ok"
                THEN isMining' /\ message'.type = "success"
                ELSE ~isMining' /\ message'.type = "error"]_vars

\* A start has failed and the session is inactive
C6_Witness ==
    /\ mounted
    /\ ~isMining
    /\ ~isLoading
    /\ message = Msg("error", "Failed to start mining.")

\* C7: when the response to a stop request sent with isMining true arrives at
\* the mounted component: if it is ok, isMining becomes false, no timer stays
\* live and a success message is posted; if it is not ok or the transport
\* failed, isMining stays true, the timer stays as it was and an error message
\* is posted.
C7_StopOutcome ==
    [][\A i \in 1..Len(inflight) : \A o \in PlainOutcomes :
          (mounted /\ isMining /\ inflight[i].action = "stop" /\ Respond(i, o)) =>
              IF o.status = "ok"
                THEN ~isMining' /\ DOMAIN timers' = {} /\ message'.type = "success"
                ELSE isMining' /\ timers' = timers /\ TimerLive
                       /\ message'.type = "error"]_vars

\* A stop has failed by a transport error and the session is still polling
C7_Witness ==
    /\ mounted
    /\ isMining
    /\ ~isLoading
    /\ TimerLive
    /\ message = Msg("error", "Error stopping mining.")

\* C8: when the response to a deposit request arrives at the mounted
\* component, totalMined becomes 0 if the response is ok and stays as it was
\* if the response is not ok or the transport failed; a click on Deposit
\* (rejected by the validation or not) leaves totalMined as it was.
\* Violated by the code: when res.ok is true and res.json() rejects (line 111),
\* the catch of line 118 runs and setTotalMined(0) of line 113 does not.
C8_DepositResetsOnOk ==
    [][/\ \A i \in 1..Len(inflight) : \A o \in DepositOutcomes :
            (mounted /\ inflight[i].action = "deposit" /\ Respond(i, o)) =>
                IF o.status = "ok" THEN totalMined' = 0 ELSE totalMined' = totalMined
       /\ ClickDeposit => totalMined' = totalMined]_vars

\* C9: while the session is active and the component mounted, one timer is
\* live and the status requests it has sent are one per 2 time units elapsed
\* since the session was activated; a status request is sent only while the
\* session is active and the component mounted; after teardown no request of
\* any kind is sent.
C9_OneStatusPerInterval ==
    /\ []((mounted /\ isMining) =>
            /\ DOMAIN timers = {interval}
            /\ 2 * ticks + (2 - timers[interval]) = clock)
    /\ [][SendsOneOf({"status"}) => (mounted /\ isMining)]_vars
    /\ [][~mounted => SendsNothing]_vars

\* Four time units into a session, two status requests have been sent
C9_Witness ==
    /\ mounted
    /\ isMining
    /\ clock = 4
    /\ ticks = 2

\* C10: a start request is sent only from a state in which the component is
\* mounted, isMining is false and no start/stop/deposit request is in flight.
C10_StartOnlyWhenInactive ==
    [][SendsOneOf({"start"}) => (mounted /\ ~isMining /\ Len(UserInFlight) = 0)]_vars

\* The session is active and idle: Start is disabled, Stop is not
C10_Witness ==
    /\ mounted
    /\ isMining
    /\ ~isLoading
    /\ StartDisabled
    /\ ~StopDisabled
    /\ message = Msg("success", "Mining started.")

-----------------------------------------------------------------------------
\* C11: a deposit request is sent only when totalMined > 0, also when the
\* deposit operation is invoked without going through the Deposit button.
\* Violated by the code: deposit (lines 97-109) tests the address only, and the
\* sole test of totalMined is the button's disabled attribute (line 147).
C11_DepositDefendsTotal ==
    [][SendsOneOf({"deposit"}) => totalMined > 0]_vars

\* C12: when a status request fails (response not ok, transport error, or a
\* body that cannot be read) at the mounted component, an error message is
\* posted, progress, hashRate and totalMined keep their values, isMining and
\* isLoading are left as they were and the timer is untouched, so that the
\* timer of an active session stays live.
C12_PollFailureKeepsState ==
    [][\A i \in 1..Len(inflight) : \A o \in StatusOutcomes :
          (mounted /\ inflight[i].action = "status" /\ ~(o.status = "ok" /\ o.json)
             /\ Respond(i, o)) =>
              /\ message'.type = "error"
              /\ UNCHANGED <<progress, hashRate, totalMined, isMining, isLoading,
                             timers, interval>>
              /\ (isMining => DOMAIN timers' # {})]_vars

\* A status request has failed in a session that shows the values of an
\* earlier response and goes on polling
C12_Witness ==
    /\ mounted
    /\ isMining
    /\ TimerLive
    /\ progress = 25 /\ hashRate = 10 /\ totalMined = 1
    /\ message = Msg("error", "Error fetching mining status.")

\* C13: the step in which the response to a start, stop or deposit request
\* arrives at the mounted component, whatever its outcome (ok, not ok,
\* transport error, unreadable body), leaves isLoading false.
C13_LoadingClearedOnCompletion ==
    [][\A i \in 1..Len(inflight) : \A o \in Outcomes(inflight[i].action) :
          (mounted /\ IsUserRequest(inflight[i]) /\ Respond(i, o)) => ~isLoading']_vars

\* A deposit has ended in the catch and the loading flag is clear
C13_Witness ==
    /\ mounted
    /\ ~isLoading
    /\ Len(UserInFlight) = 0
    /\ message = Msg("error", "Error during deposit.")

\* The response to a start, stop or deposit request that the handler treats as
\* a failure
HandledAsFailure(r, o) ==
    IF r.action = "deposit" THEN ~(o.status = "ok" /\ o.json) ELSE o.status # "ok"

\* A start, stop or deposit request is sent by a click and by nothing else
NoAutomaticRetry ==
    SendsOneOf({"start", "stop", "deposit"}) => (ClickStart \/ ClickStop \/ ClickDeposit)

\* C14 as claimed: the step in which a start, stop or deposit fails at the
\* mounted component leaves isLoading false and the button of the same action
\* enabled, and no start, stop or deposit request is sent but by a click.
\* Violated for deposit: a status response that arrived while the deposit was
\* in flight may have set totalMined to 0, and the Deposit button is then
\* disabled (line 147) when the deposit has failed.
C14_RetryAlwaysEnabled ==
    [][/\ \A i \in 1..Len(inflight) : \A o \in Outcomes(inflight[i].action) :
            (mounted /\ IsUserRequest(inflight[i]) /\ HandledAsFailure(inflight[i], o)
               /\ Respond(i, o)) =>
                /\ ~isLoading'
                /\ CASE inflight[i].action = "start" -> ~StartDisabled'
                     [] inflight[i].action = "stop" -> ~StopDisabled'
                     [] OTHER -> ~DepositDisabled'
       /\ NoAutomaticRetry]_vars

\* C14 as amended: the same, with the Deposit button enabled again provided
\* totalMined is above 0 when the failure arrives.
C14_RetryEnabledWhenAccrued ==
    [][/\ \A i \in 1..Len(inflight) : \A o \in Outcomes(inflight[i].action) :
            (mounted /\ IsUserRequest(inflight[i]) /\ HandledAsFailure(inflight[i], o)
               /\ Respond(i, o)) =>
                /\ ~isLoading'
                /\ CASE inflight[i].action = "start" -> ~StartDisabled'
                     [] inflight[i].action = "stop" -> ~StopDisabled'
                     [] OTHER -> (totalMined > 0 => ~DepositDisabled')
       /\ NoAutomaticRetry]_vars

\* A deposit has failed and the Deposit button is enabled again
C14_Witness ==
    /\ mounted
    /\ ~isLoading
    /\ message = Msg("error", "Deposit failed.")
    /\ ~DepositDisabled
    /\ inflight = <<>>

\* The numbers shown are those of status body b
Shows(b) == progress = b.progress /\ hashRate = b.hashRate /\ totalMined = b.totalMined

C16_StaleResponseApplied ==
    /\ [][Len(StatusInFlight') < Len(StatusInFlight) =>
             \E i \in 1..Len(inflight) :
                 inflight[i].action = "status" /\ inflight' = Remove(inflight, i)]_vars
    /\ [][\A i \in 1..Len(inflight) : \A b \in StatusBodies :
             (mounted /\ (~isMining \/ totalMined = 0) /\ inflight[i].action = "status"
                /\ Respond(i, Outcome("ok", TRUE, b))) => Shows(b)']_vars

\* The session was stopped, then a deposit succeeded and reset the total, and
\* then a status response sent before both arrived and set the total again
C16_Witness ==
    /\ mounted
    /\ ~isMining
    /\ ~isLoading
    /\ message = Msg("success", "Deposit successful.")
    /\ totalMined = 2

\* C17: when the response to a deposit request arrives at the mounted
\* component, the message has type success exactly if the response is ok; its
\* text is the message of the body when that is not empty and otherwise
\* 'Deposit successful.' (ok) or 'Deposit failed.' (not ok); a transport error
\* gives a message of type error.
\* Violated by the code: when res.ok is true and res.json() rejects (line 111),
\* the catch posts the error 'Error during deposit.' (line 119).
C17_DepositMessage ==
    [][\A i \in 1..Len(inflight) : \A o \in DepositOutcomes :
          (mounted /\ inflight[i].action = "deposit" /\ Respond(i, o)) =>
              /\ (message'.type = "success") <=> (o.status = "ok")
              /\ o.status = "error" => message'.type = "error"
              /\ (o.status # "error" /\ o.json) =>
                    message'.text =
                        IF o.data.message # "" THEN o.data.message
                        ELSE IF o.status = "ok" THEN "Deposit successful."
                        ELSE "Deposit failed."]_vars

\* The messages with which each operation can end
StartMessages ==
    { Msg("success", "Mining started."), Msg("error", "Failed to start mining."),
      Msg("error", "Error starting mining.") }

StopMessages ==
    { Msg("success", "Mining stopped."), Msg("error", "Failed to stop mining."),
      Msg("error", "Error stopping mining.") }

DepositMessages ==
    { Msg("success", "Deposit successful."), Msg("error", "Deposit failed."),
      Msg("error", "Error during deposit."),
      Msg("success", "Server text."), Msg("error", "Server text.") }

\* C18 as claimed: the message is empty right after every click on Start, Stop
\* or Deposit, and when the response to a start, stop or deposit request
\* arrives at the mounted component the message becomes an outcome of that
\* very operation.
\* Violated for a deposit that the validation rejects: the handler clears the
\* message (line 98) and sets the error (line 100) in the same step, so the
\* message right after the click is 'Invalid Bitcoin wallet address.'.
C18_MessageEmptyAfterEveryStart ==
    [][/\ (ClickStart \/ ClickStop \/ ClickDeposit) => message' = NoMessage
       /\ \A i \in 1..Len(inflight) : \A o \in Outcomes(inflight[i].action) :
             (mounted /\ IsUserRequest(inflight[i]) /\ Respond(i, o)) =>
                 message' \in CASE inflight[i].action = "start" -> StartMessages
                                [] inflight[i].action = "stop" -> StopMessages
                                [] OTHER -> DepositMessages]_vars

\* C18 as amended: the message is empty right after a click on Start or Stop
\* and right after a click on Deposit that sends the request; a click on
\* Deposit that the validation rejects ends the operation at once and shows
\* its own error; and when the response to a start, stop or deposit request
\* arrives at the mounted component the message becomes an outcome of that
\* very operation.
C18_MessageSlot ==
    [][/\ (ClickStart \/ ClickStop) => message' = NoMessage
       /\ ClickDeposit =>
             message' = IF inflight' # inflight THEN NoMessage ELSE InvalidWalletMessage
       /\ \A i \in 1..Len(inflight) : \A o \in Outcomes(inflight[i].action) :
             (mounted /\ IsUserRequest(inflight[i]) /\ Respond(i, o)) =>
                 message' \in CASE inflight[i].action = "start" -> StartMessages
                                [] inflight[i].action = "stop" -> StopMessages
                                [] OTHER -> DepositMessages]_vars

\* A session ran and was stopped, and the start that followed is pending with
\* the message of the stop cleared
C18_Witness ==
    /\ mounted
    /\ ~isMining
    /\ ticks > 0
    /\ Len(UserInFlight) = 1
    /\ UserInFlight[1].action = "start"
    /\ message = NoMessage

\* C19: a step that changes progress, hashRate or totalMined is the arrival of
\* a status response, or the arrival of a deposit response that sets totalMined
\* to 0 and leaves progress and hashRate alone; and a step that sends or
\* completes a status request leaves isMining and isLoading alone.
C19_NumbersFrame ==
    /\ [][<<progress, hashRate, totalMined>>' # <<progress, hashRate, totalMined>> =>
             \E i \in 1..Len(inflight) :
                 /\ inflight' = Remove(inflight, i)
                 /\ \/ inflight[i].action = "status"
                    \/ /\ inflight[i].action = "deposit"
                       /\ message'.type = "success"
                       /\ totalMined' = 0
                       /\ UNCHANGED <<progress, hashRate>>]_vars
    /\ [][Len(StatusInFlight') # Len(StatusInFlight) => UNCHANGED <<isMining, isLoading>>]_vars

\* A session with numbers above 0 has been stopped and the numbers are kept
C19_Witness ==
    /\ mounted
    /\ ~isMining
    /\ message = Msg("success", "Mining stopped.")
    /\ progress = 50 /\ hashRate = 20 /\ totalMined = 2

\* C20: there is never more than one timer, and a timer is live exactly when
\* isMining is true and the component is mounted.
C20_OneTimerIffActive ==
    /\ Cardinality(DOMAIN timers) <= 1
    /\ TimerLive <=> (isMining /\ mounted)

\* A second session is running (the numbers are those of an earlier session,
\* this one has not polled yet) with its one timer
C20_Witness ==
    /\ mounted
    /\ isMining
    /\ ticks = 0
    /\ inflight = <<>>
    /\ progress = 25
    /\ message = Msg("success", "Mining started.")
    /\ Cardinality(DOMAIN timers) = 1

====
